---- MODULE Spec2Model ----
(***************************************************************************)
(* Model of the Twitch EventSub -> Discord webhook relay (src/index.ts,    *)
(* src/discord.ts).  One inbound request is handled by fetch(); accepted    *)
(* notifications and revocations leave a fire-and-forget task behind that   *)
(* runs authorize -> platform lookups -> executeWebhook.                    *)
(*                                                                         *)
(* src/twitch.ts (verifyRequest, isStreamOnlineBody, authorize, getStreams, *)
(* getChannels, getUsers) is not part of the available sources; those      *)
(* definitions follow the written specification.                            *)
(***************************************************************************)
EXTENDS Integers, FiniteSets, Sequences, TLC

\* ------------------------------------------------------------------ bounds
MaxTasks == 2          \* concurrent downstream tasks in SpecConc
MaxTime == 2           \* last instant of the clock
MaxCalls == 2          \* token-endpoint calls issued in one behaviour

\* --------------------------------------------------------------- constants
DefaultAgeWarning == 300000
ExpiryMargin == 1
NoContent == 204

Empty == "<empty>"
NoToken == 0

VARIABLES env, upstream, now, req, resp, task, accessToken, expiresAt, inflight, tokenCalls

vars == <<env, upstream, now, req, resp, task, accessToken, expiresAt, inflight, tokenCalls>>
cacheVars == <<accessToken, expiresAt, inflight, tokenCalls>>

\* ------------------------------------------------------------ input domains
Notification == "notification"
WebhookCallbackVerification == "webhook_callback_verification"
Revocation == "revocation"

MsgTypes == {Notification, WebhookCallbackVerification, Revocation, "unknown", "missing"}

StreamOnline == "stream.online"

Challenges == {"abc123", "xyz789"}

\* A body is either unparseable or a JSON object with an optional
\* subscription (its type) and an optional challenge string.
\* The subscription status is a string, kept as its sequence of words and
\* underscores.
UserRemoved == <<"user", "_", "removed">>
AuthorizationRevoked == <<"authorization", "_", "revoked">>
NotificationFailuresExceeded == <<"notification", "_", "failures", "_", "exceeded">>
Enabled == <<"enabled">>

Statuses == {UserRemoved, AuthorizationRevoked, NotificationFailuresExceeded, Enabled}

MalformedBody ==
    [json |-> FALSE, subType |-> "absent", challenge |-> "absent", status |-> <<>>]

Bodies ==
    {MalformedBody} \cup
    {[json |-> TRUE, subType |-> s, challenge |-> c,
      status |-> IF s = "absent" THEN <<>> ELSE UserRemoved] :
        s \in {StreamOnline, "channel.follow", "absent"},
        c \in Challenges \cup {"absent"}}

Timestamps == {0, 0 - (DefaultAgeWarning + 1)}

\* The message id, timestamp and signature headers, with at most one of them
\* missing or wrong.
HeaderSets ==
    {h \in [idPresent : BOOLEAN, tsPresent : BOOLEAN, timestamp : Timestamps,
            signature : {"missing", "mismatch", "match"}] :
        /\ (~h.tsPresent => h.timestamp = 0)
        /\ Cardinality({d \in {"id", "ts", "sig"} :
                \/ d = "id" /\ ~h.idPresent
                \/ d = "ts" /\ ~h.tsPresent
                \/ d = "sig" /\ h.signature # "match"}) <= 1}

Requests ==
    {[idPresent |-> h.idPresent, tsPresent |-> h.tsPresent, timestamp |-> h.timestamp,
      signature |-> h.signature, msgType |-> m, body |-> b] :
        h \in HeaderSets, m \in MsgTypes, b \in Bodies}

\* Requests used when several invocations run concurrently: well-formed
\* notifications and revocations.
ConcRequests ==
    [idPresent : {TRUE}, tsPresent : {TRUE}, timestamp : {0},
     signature : {"match"},
     msgType : {Notification, Revocation},
     body : {[json |-> TRUE, subType |-> StreamOnline, challenge |-> "absent",
              status |-> UserRemoved]}]

NoReq == [idPresent |-> FALSE, tsPresent |-> FALSE, timestamp |-> 0,
          signature |-> "none", msgType |-> "none", body |-> MalformedBody]

\* Configuration: DISCORD_WEBHOOK_ID / _TOKEN / _URL and TWITCH_AGE_WARNING
\* ("" when unset).
AgeWarnings == {600000}

\* WebhookUrlPattern (discord.ts): the id segment is 17 to 19 digits and the
\* token is 68 word characters.
IdDigitsLow == 17
IdDigitsHigh == 19
TokenChars == 68

\* A configured webhook URL of the chat service's host and path, by the
\* number of digits of its id segment and of word characters that follow.
Url(digits, chars) == [set |-> TRUE, idDigits |-> digits, tokenChars |-> chars]

\* DISCORD_WEBHOOK_URL is not configured.
NoUrl == [set |-> FALSE, idDigits |-> 0, tokenChars |-> 0]

Envs ==
    {[id |-> "id", token |-> "token", url |-> NoUrl, ageWarning |-> ""],
     [id |-> "", token |-> "", url |-> Url(IdDigitsLow + 1, TokenChars),
      ageWarning |-> "600000"],
     [id |-> "id", token |-> "", url |-> Url(IdDigitsLow - 1, TokenChars),
      ageWarning |-> ""],
     [id |-> "", token |-> "", url |-> NoUrl, ageWarning |-> ""]}

\* Every configuration of the webhook target: the id and the token each set
\* or not, and no URL or one whose segments are around the pattern's limits.
HookEnvs ==
    [id : {"", "id"}, token : {"", "token"},
     url : {NoUrl} \cup
           {Url(d, c) : d \in {IdDigitsLow - 1, IdDigitsLow, IdDigitsHigh, IdDigitsHigh + 1},
                        c \in {TokenChars - 1, TokenChars, TokenChars + 1}},
     ageWarning : {""}]

Lifetimes == {1, 3}

\* ------------------------------------------------------------ fetch handler
Response(body, status) ==
    [status |-> status, body |-> body, scheduled |-> "none",
     parsed |-> FALSE, classified |-> FALSE, warned |-> FALSE, escaped |-> FALSE]

NoResp == Response(Empty, 0)

\* twitch.ts verifyRequest: false on any missing header or signature mismatch.
verifyRequest(r) ==
    r.idPresent /\ r.tsPresent /\ r.signature = "match"

\* twitch.ts isStreamOnlineBody: the body's subscription type is stream.online.
isStreamOnlineBody(b) ==
    b.subType = StreamOnline

\* parseInt on the decimal strings the configuration may hold.
parseInt(str) ==
    CHOOSE n \in AgeWarnings : ToString(n) = str

\* index.ts checkAge: TRUE when the warning is logged.
checkAge(timestamp) ==
    LET TWITCH_AGE_WARNING ==
            IF env.ageWarning # "" THEN parseInt(env.ageWarning) ELSE DefaultAgeWarning
        age == now - timestamp
    IN  age > TWITCH_AGE_WARNING

\* index.ts resolveTimestamp: [timestamp, warned].
resolveTimestamp(r) ==
    IF r.tsPresent
    THEN LET timestamp == r.timestamp
         IN  [timestamp |-> timestamp, warned |-> checkAge(timestamp)]
    ELSE [timestamp |-> now, warned |-> FALSE]

handleNotification_await(r) ==
    [Response(Empty, 0) EXCEPT !.scheduled = Notification]

handleNotification(r) ==
    [Response(Empty, NoContent) EXCEPT !.scheduled = Notification]

handleChallenge_schedules(b) ==
    [Response(IF b.challenge = "absent" THEN Empty ELSE b.challenge, 200)
        EXCEPT !.scheduled = Notification]

handleChallenge_empty(b) ==
    Response(Empty, 200)

handleChallenge(b) ==
    Response(IF b.challenge = "absent" THEN Empty ELSE b.challenge, 200)

handleRevocation(r) ==
    [Response(Empty, NoContent) EXCEPT !.scheduled = Revocation]

\* The try block of fetch: [kind, resp] with kind "return", "throw" or
\* "fallthrough" (the switch matched no case).
Return(rs) == [kind |-> "return", resp |-> rs]
Throw(rs) == [kind |-> "throw", resp |-> rs]
Fallthrough(rs) == [kind |-> "fallthrough", resp |-> rs]

dispatch_default403(r, seen) ==
    CASE r.msgType = Notification -> Return([handleNotification(r) EXCEPT
             !.parsed = TRUE, !.classified = TRUE, !.warned = seen.warned])
      [] r.msgType = WebhookCallbackVerification -> Return([handleChallenge(r.body) EXCEPT
             !.parsed = TRUE, !.classified = TRUE, !.warned = seen.warned])
      [] r.msgType = Revocation -> Return([handleRevocation(r) EXCEPT
             !.parsed = TRUE, !.classified = TRUE, !.warned = seen.warned])
      [] OTHER -> Return([Response(Empty, 403) EXCEPT
             !.parsed = TRUE, !.classified = TRUE, !.warned = seen.warned])

dispatch_defaultNotification(r, seen) ==
    CASE r.msgType = WebhookCallbackVerification -> Return([handleChallenge(r.body) EXCEPT
             !.parsed = TRUE, !.classified = TRUE, !.warned = seen.warned])
      [] r.msgType = Revocation -> Return([handleRevocation(r) EXCEPT
             !.parsed = TRUE, !.classified = TRUE, !.warned = seen.warned])
      [] OTHER -> Return([handleNotification(r) EXCEPT
             !.parsed = TRUE, !.classified = TRUE, !.warned = seen.warned])

\* index.ts 52-61: the switch on the message-type header.
dispatch(r, seen) ==
    CASE r.msgType = Notification -> Return([handleNotification(r) EXCEPT
             !.parsed = TRUE, !.classified = TRUE, !.warned = seen.warned])
      [] r.msgType = WebhookCallbackVerification -> Return([handleChallenge(r.body) EXCEPT
             !.parsed = TRUE, !.classified = TRUE, !.warned = seen.warned])
      [] r.msgType = Revocation -> Return([handleRevocation(r) EXCEPT
             !.parsed = TRUE, !.classified = TRUE, !.warned = seen.warned])
      [] OTHER -> Fallthrough([Response(Empty, 0) EXCEPT
             !.parsed = TRUE, !.classified = TRUE, !.warned = seen.warned])

tryBlock_parseFirst(r) ==
    IF ~r.body.json
    THEN Throw(Response(Empty, 0))
    ELSE IF ~verifyRequest(r)
    THEN Return([Response(Empty, 401) EXCEPT !.parsed = TRUE])
    ELSE LET seen == resolveTimestamp(r)
         IN  IF ~isStreamOnlineBody(r.body)
             THEN Return([Response(Empty, 403) EXCEPT
                      !.parsed = TRUE, !.warned = seen.warned])
             ELSE dispatch(r, seen)

tryBlock_dispatchFirst(r) ==
    IF ~verifyRequest(r)
    THEN Return(Response(Empty, 401))
    ELSE LET seen == resolveTimestamp(r)
         IN  IF ~r.body.json
             THEN Throw([Response(Empty, 0) EXCEPT !.warned = seen.warned])
             ELSE IF r.msgType \in {Notification, WebhookCallbackVerification, Revocation}
                     \/ isStreamOnlineBody(r.body)
             THEN dispatch(r, seen)
             ELSE Return([Response(Empty, 403) EXCEPT
                      !.parsed = TRUE, !.warned = seen.warned])

tryBlock_rejectStale(r) ==
    IF ~verifyRequest(r)
    THEN Return(Response(Empty, 401))
    ELSE LET seen == resolveTimestamp(r)
         IN  IF seen.warned
             THEN Return([Response(Empty, 401) EXCEPT !.warned = TRUE])
             ELSE IF ~r.body.json
             THEN Throw([Response(Empty, 0) EXCEPT !.warned = seen.warned])
             ELSE IF ~isStreamOnlineBody(r.body)
             THEN Return([Response(Empty, 403) EXCEPT
                      !.parsed = TRUE, !.warned = seen.warned])
             ELSE dispatch(r, seen)

\* index.ts 43-61.
tryBlock(r) ==
    IF ~verifyRequest(r)
    THEN Return(Response(Empty, 401))
    ELSE LET seen == resolveTimestamp(r)
         IN  IF ~r.body.json
             THEN Throw([Response(Empty, 0) EXCEPT !.warned = seen.warned])
             ELSE IF ~isStreamOnlineBody(r.body)
             THEN Return([Response(Empty, 403) EXCEPT
                      !.parsed = TRUE, !.warned = seen.warned])
             ELSE dispatch(r, seen)

fetch_errorBody(r) ==
    LET out == tryBlock(r)
    IN  CASE out.kind = "return" -> out.resp
          [] out.kind = "throw" -> [out.resp EXCEPT !.status = 500, !.body = "error"]
          [] OTHER -> [out.resp EXCEPT !.status = 400, !.body = Empty]

fetch_noCatch(r) ==
    LET out == tryBlock(r)
    IN  CASE out.kind = "return" -> out.resp
          [] out.kind = "throw" -> [out.resp EXCEPT !.escaped = TRUE]
          [] OTHER -> [out.resp EXCEPT !.status = 400]

\* index.ts 37-67: a thrown exception is caught and logged, and both it and
\* an unmatched switch reach the final 400.
fetch(r) ==
    LET out == tryBlock(r)
    IN  CASE out.kind = "return" -> out.resp
          [] OTHER -> [out.resp EXCEPT !.status = 400, !.body = Empty]

\* ------------------------------------------------------- platform resources
Undefined == "undefined"
NoInstant == 0 - 1

\* The first element of a lookup's data collection; present is FALSE when
\* the collection is empty and destructuring gives undefined.
FullStream ==
    [present |-> TRUE, user_id |-> "s.user_id", user_login |-> "s.user_login",
     user_name |-> "s.user_name", game_id |-> "s.game_id",
     game_name |-> "s.game_name", title |-> "s.title", started_at |-> 7,
     language |-> "s.language", thumbnail_url |-> "s.thumbnail_url"]

NoStream ==
    [present |-> FALSE, user_id |-> Undefined, user_login |-> Undefined,
     user_name |-> Undefined, game_id |-> Undefined,
     game_name |-> Undefined, title |-> Undefined, started_at |-> NoInstant,
     language |-> Undefined, thumbnail_url |-> Undefined]

FullChannel ==
    [present |-> TRUE, broadcaster_id |-> "c.broadcaster_id",
     broadcaster_login |-> "c.broadcaster_login",
     broadcaster_name |-> "c.broadcaster_name", game_id |-> "c.game_id",
     game_name |-> "c.game_name", title |-> "c.title", delay |-> 10,
     broadcaster_language |-> "c.broadcaster_language"]

NoChannel ==
    [present |-> FALSE, broadcaster_id |-> Undefined,
     broadcaster_login |-> Undefined,
     broadcaster_name |-> Undefined, game_id |-> Undefined,
     game_name |-> Undefined, title |-> Undefined, delay |-> 0,
     broadcaster_language |-> Undefined]

FullUser == [present |-> TRUE, profile_image_url |-> "u.profile_image_url"]
NoUser == [present |-> FALSE, profile_image_url |-> Undefined]

StreamFields ==
    {"user_id", "user_login", "user_name", "game_id", "game_name", "title",
     "language", "thumbnail_url"}

\* What the platform holds for the broadcaster's stream: the complete
\* resource, or the resource with one field missing, with an empty string,
\* or without started_at.
Upstreams ==
    [defect : {"none"}, field : {"none"}]
    \cup [defect : {"missing"}, field : StreamFields]
    \cup [defect : {"empty"}, field : {"title", "game_name"}]
    \cup [defect : {"unstarted"}, field : {"started_at"}]

DefaultUpstream == [defect |-> "none", field |-> "none"]

streamWith(u) ==
    CASE u.defect = "missing" -> [FullStream EXCEPT ![u.field] = Undefined]
      [] u.defect = "empty" -> [FullStream EXCEPT ![u.field] = ""]
      [] u.defect = "unstarted" -> [FullStream EXCEPT !.started_at = NoInstant]
      [] OTHER -> FullStream

Streams == {streamWith(u) : u \in Upstreams}

\* The records the lookups return when their collection is not empty.
Platforms == [stream : Streams, channel : {FullChannel}, user : {FullUser}]

platform == [stream |-> streamWith(upstream), channel |-> FullChannel, user |-> FullUser]

\* stream?.f
Opt(res, f) == IF res.present THEN res[f] ELSE Undefined

\* a ?? b
Coalesce(a, b) == IF a = Undefined THEN b ELSE a

\* No StreamInfo: the aggregation has not returned.
NoView == [returned |-> FALSE]

merge_requireStream(stream, channel, user) ==
    IF ~stream.present \/ ~channel.present \/ ~user.present
    THEN [ok |-> FALSE, view |-> NoView]
    ELSE [ok |-> TRUE,
          view |->
            [userId |-> Coalesce(Opt(stream, "user_id"), channel.broadcaster_id),
             userLogin |-> Coalesce(Opt(stream, "user_login"), channel.broadcaster_login),
             userName |-> Coalesce(Opt(stream, "user_name"), channel.broadcaster_name),
             userAvatarUrl |-> user.profile_image_url,
             gameId |-> Coalesce(Opt(stream, "game_id"), channel.game_id),
             gameName |-> Coalesce(Opt(stream, "game_name"), channel.game_name),
             title |-> Coalesce(Opt(stream, "title"), channel.title),
             delay |-> channel.delay,
             startedAt |-> IF stream.present /\ stream.started_at # NoInstant
                           THEN stream.started_at ELSE NoInstant,
             language |-> Coalesce(Opt(stream, "language"), channel.broadcaster_language),
             thumbnailUrl |-> Opt(stream, "thumbnail_url")]]

merge_channelFirst(stream, channel, user) ==
    IF ~channel.present \/ ~user.present
    THEN [ok |-> FALSE, view |-> NoView]
    ELSE [ok |-> TRUE,
          view |->
            [userId |-> Coalesce(Opt(stream, "user_id"), channel.broadcaster_id),
             userLogin |-> Coalesce(Opt(stream, "user_login"), channel.broadcaster_login),
             userName |-> Coalesce(Opt(stream, "user_name"), channel.broadcaster_name),
             userAvatarUrl |-> user.profile_image_url,
             gameId |-> Coalesce(Opt(stream, "game_id"), channel.game_id),
             gameName |-> Coalesce(channel.game_name, Opt(stream, "game_name")),
             title |-> Coalesce(channel.title, Opt(stream, "title")),
             delay |-> channel.delay,
             startedAt |-> IF stream.present /\ stream.started_at # NoInstant
                           THEN stream.started_at ELSE NoInstant,
             language |-> Coalesce(Opt(stream, "language"), channel.broadcaster_language),
             thumbnailUrl |-> Opt(stream, "thumbnail_url")]]

merge_streamOnlyLanguage(stream, channel, user) ==
    IF ~channel.present \/ ~user.present
    THEN [ok |-> FALSE, view |-> NoView]
    ELSE [ok |-> TRUE,
          view |->
            [userId |-> Coalesce(Opt(stream, "user_id"), channel.broadcaster_id),
             userLogin |-> Coalesce(Opt(stream, "user_login"), channel.broadcaster_login),
             userName |-> Coalesce(Opt(stream, "user_name"), channel.broadcaster_name),
             userAvatarUrl |-> user.profile_image_url,
             gameId |-> Coalesce(Opt(stream, "game_id"), channel.game_id),
             gameName |-> Coalesce(Opt(stream, "game_name"), channel.game_name),
             title |-> Coalesce(Opt(stream, "title"), channel.title),
             delay |-> channel.delay,
             startedAt |-> IF stream.present /\ stream.started_at # NoInstant
                           THEN stream.started_at ELSE NoInstant,
             language |-> Opt(stream, "language"),
             thumbnailUrl |-> Opt(stream, "thumbnail_url")]]

\* index.ts 199-211: the merged StreamInfo, or a TypeError (ok = FALSE) when
\* channel.delay or user.profile_image_url is read from undefined.
merge(stream, channel, user) ==
    IF ~channel.present \/ ~user.present
    THEN [ok |-> FALSE, view |-> NoView]
    ELSE [ok |-> TRUE,
          view |->
            [userId |-> Coalesce(Opt(stream, "user_id"), channel.broadcaster_id),
             userLogin |-> Coalesce(Opt(stream, "user_login"), channel.broadcaster_login),
             userName |-> Coalesce(Opt(stream, "user_name"), channel.broadcaster_name),
             userAvatarUrl |-> user.profile_image_url,
             gameId |-> Coalesce(Opt(stream, "game_id"), channel.game_id),
             gameName |-> Coalesce(Opt(stream, "game_name"), channel.game_name),
             title |-> Coalesce(Opt(stream, "title"), channel.title),
             delay |-> channel.delay,
             startedAt |-> IF stream.present /\ stream.started_at # NoInstant
                           THEN stream.started_at ELSE NoInstant,
             language |-> Coalesce(Opt(stream, "language"), channel.broadcaster_language),
             thumbnailUrl |-> Opt(stream, "thumbnail_url")]]

\* ------------------------------------------------------------ chat messages
Min(S) == CHOOSE x \in S : \A y \in S : x <= y

\* String.prototype.replace with a string pattern: the first occurrence only.
replace(str, pattern, replacement) ==
    LET hits == {i \in 1..Len(str) : str[i] = pattern}
    IN  IF hits = {} THEN str ELSE [str EXCEPT ![Min(hits)] = replacement]

\* No message: executeWebhook has not been called.
NoMessage == [built |-> FALSE]

notificationMessage_receipt(info, timestamp) ==
    [content |-> "@everyone",
     title |-> info.title,
     url |-> info.userLogin,
     thumbnail |-> info.userAvatarUrl,
     name |-> info.userName,
     wording |-> IF info.startedAt # NoInstant THEN "went live" ELSE "goes live",
     instant |-> timestamp + info.delay,
     game |-> info.gameName,
     image |-> IF info.thumbnailUrl = "" THEN Undefined ELSE info.thumbnailUrl]

\* index.ts 91-102: the message of forwardNotification.
notificationMessage(info, timestamp) ==
    [content |-> "@everyone",
     title |-> info.title,
     url |-> info.userLogin,
     thumbnail |-> info.userAvatarUrl,
     name |-> info.userName,
     wording |-> IF info.startedAt # NoInstant THEN "went live" ELSE "goes live",
     instant |-> IF info.startedAt # NoInstant
                    THEN info.startedAt ELSE timestamp + info.delay,
     game |-> info.gameName,
     image |-> IF info.thumbnailUrl = "" THEN Undefined ELSE info.thumbnailUrl]

\* index.ts 120-125: the message of forwardRevocation.
revocationMessage(channel, status) ==
    [content |-> "revoked",
     name |-> channel.broadcaster_name,
     status |-> replace(status, "_", " ")]

\* ---------------------------------------------------------- downstream task
\* No webhook target: resolveWebhookOptions returned null, or was not called.
NoWebhook == [id |-> "", token |-> ""]

IdleTask ==
    [kind |-> "idle", pc |-> "idle", token |-> NoToken, via |-> "none",
     streams |-> "unused", channels |-> "unused", users |-> "unused",
     posts |-> 0, err |-> "none", settled |-> "none",
     timestamp |-> 0, status |-> <<>>, info |-> NoView, message |-> NoMessage,
     target |-> NoWebhook, res |-> 0]

\* The promise handed to ctx.waitUntil, before its first statement runs.
NewTask(kind) ==
    [IdleTask EXCEPT !.kind = kind, !.pc = "start", !.settled = "pending"]

\* The arguments of the task: forwardNotification(env, body, timestamp) and
\* forwardRevocation(env, body).
forward(r, kind) ==
    IF kind = Notification
    THEN [NewTask(kind) EXCEPT !.timestamp = resolveTimestamp(r).timestamp]
    ELSE [NewTask(kind) EXCEPT !.status = r.body.status]

catchError_rethrow(tk, e) ==
    [tk EXCEPT !.pc = "done", !.err = e, !.settled = "rejected"]

\* index.ts 104-106, 127-129: the catch of forwardNotification and
\* forwardRevocation logs the error; the promise resolves.
catchError(tk, e) ==
    [tk EXCEPT !.pc = "done", !.err = e, !.settled = "resolved"]

startCallback_sequential(tk, tok, via) ==
    IF tk.kind = Notification
    THEN [tk EXCEPT !.pc = "lookups", !.token = tok, !.via = via,
                    !.streams = "pending"]
    ELSE [tk EXCEPT !.pc = "lookups", !.token = tok, !.via = via,
                    !.channels = "pending"]

\* The callback handed to authorize, up to its first await: a notification
\* issues the three lookups at once (index.ts 179-198), a revocation the
\* channel lookup alone (index.ts 114-118).
startCallback(tk, tok, via) ==
    IF tk.kind = Notification
    THEN [tk EXCEPT !.pc = "lookups", !.token = tok, !.via = via,
                    !.streams = "pending", !.channels = "pending", !.users = "pending"]
    ELSE [tk EXCEPT !.pc = "lookups", !.token = tok, !.via = via,
                    !.channels = "pending"]

\* Token Cache: a cached token that has not passed its expiry less the margin.
tokenFresh(tok, exp, t) ==
    tok # NoToken /\ t < exp - ExpiryMargin

authorize_noSingleFlight(tk) ==
    IF tokenFresh(accessToken, expiresAt, now)
    THEN [task |-> startCallback(tk, accessToken, "cache"),
          inflight |-> inflight, tokenCalls |-> tokenCalls]
    ELSE [task |-> [tk EXCEPT !.pc = "token"],
          inflight |-> inflight + 1, tokenCalls |-> tokenCalls + 1]

authorize_alwaysRefresh(tk) ==
    IF inflight > 0
    THEN [task |-> [tk EXCEPT !.pc = "token"],
          inflight |-> inflight, tokenCalls |-> tokenCalls]
    ELSE [task |-> [tk EXCEPT !.pc = "token"],
          inflight |-> inflight + 1, tokenCalls |-> tokenCalls + 1]

\* Token Cache withToken (twitch.ts authorize), up to its first await:
\* reuse a fresh token, else join the refresh in flight, else start one.
authorize(tk) ==
    IF tokenFresh(accessToken, expiresAt, now)
    THEN [task |-> startCallback(tk, accessToken, "cache"),
          inflight |-> inflight, tokenCalls |-> tokenCalls]
    ELSE IF inflight > 0
    THEN [task |-> [tk EXCEPT !.pc = "token"],
          inflight |-> inflight, tokenCalls |-> tokenCalls]
    ELSE [task |-> [tk EXCEPT !.pc = "token"],
          inflight |-> inflight + 1, tokenCalls |-> tokenCalls + 1]

\* discord.ts resolveWebhookOptions.
\* WebhookUrlPattern.exec(url): the id segment lies between "webhooks/" and
\* "/", so it is matched whole; the pattern is not anchored at its end, so
\* the token group takes the first 68 word characters of a longer segment.
WebhookUrlPattern(url) ==
    /\ url.set
    /\ url.idDigits \in IdDigitsLow..IdDigitsHigh
    /\ url.tokenChars >= TokenChars

resolveWebhookOptions_either(o) ==
    IF o.id # "" \/ o.token # ""
    THEN [id |-> o.id, token |-> o.token]
    ELSE IF WebhookUrlPattern(o.url)
    THEN [id |-> "urlid", token |-> "urltoken"]
    ELSE NoWebhook

resolveWebhookOptions(o) ==
    IF o.id # "" /\ o.token # ""
    THEN [id |-> o.id, token |-> o.token]
    ELSE IF WebhookUrlPattern(o.url)
    THEN [id |-> "urlid", token |-> "urltoken"]
    ELSE NoWebhook

\* discord.ts executeWebhook up to its await: throw on an unresolvable
\* target, else issue the POST.
executeWebhook(tk, o) ==
    LET webhook == resolveWebhookOptions(o)
    IN  IF webhook = NoWebhook
        THEN catchError(tk, "target")
        ELSE [tk EXCEPT !.pc = "post", !.posts = @ + 1, !.target = webhook]

\* The first element of each lookup's collection, as destructured.
streamOf(tk) == IF tk.streams = "one" THEN platform.stream ELSE NoStream
channelOf(tk) == IF tk.channels = "one" THEN platform.channel ELSE NoChannel
userOf(tk) == IF tk.users = "one" THEN platform.user ELSE NoUser

afterLookups_optionalUser(tk, o) ==
    IF tk.kind = Notification
    THEN LET user == IF tk.users = "one" THEN platform.user
                     ELSE [present |-> TRUE, profile_image_url |-> Undefined]
             m == merge(streamOf(tk), channelOf(tk), user)
         IN  IF ~m.ok
             THEN catchError(tk, "notfound")
             ELSE executeWebhook(
                      [tk EXCEPT !.info = m.view,
                                 !.message = notificationMessage(m.view, tk.timestamp)], o)
    ELSE IF ~channelOf(tk).present
         THEN catchError(tk, "notfound")
         ELSE executeWebhook(
                  [tk EXCEPT !.message = revocationMessage(channelOf(tk), tk.status)], o)

afterLookups_optionalChannel(tk, o) ==
    IF tk.kind = Notification
    THEN LET channel == IF tk.channels = "one" \/ tk.streams # "one"
                        THEN channelOf(tk)
                        ELSE [NoChannel EXCEPT !.present = TRUE]
             m == merge(streamOf(tk), channel, userOf(tk))
         IN  IF ~m.ok
             THEN catchError(tk, "notfound")
             ELSE executeWebhook(
                      [tk EXCEPT !.info = m.view,
                                 !.message = notificationMessage(m.view, tk.timestamp)], o)
    ELSE IF ~channelOf(tk).present
         THEN catchError(tk, "notfound")
         ELSE executeWebhook(
                  [tk EXCEPT !.message = revocationMessage(channelOf(tk), tk.status)], o)

\* What follows the lookups once all have answered.  A notification merges
\* the three resources (index.ts 199-211) and builds its message (91-102); a
\* revocation builds its message from the channel (120-125), and reading
\* channel.broadcaster_name from undefined throws.
afterLookups(tk, o) ==
    IF tk.kind = Notification
    THEN LET m == merge(streamOf(tk), channelOf(tk), userOf(tk))
         IN  IF ~m.ok
             THEN catchError(tk, "notfound")
             ELSE executeWebhook(
                      [tk EXCEPT !.info = m.view,
                                 !.message = notificationMessage(m.view, tk.timestamp)], o)
    ELSE IF ~channelOf(tk).present
         THEN catchError(tk, "notfound")
         ELSE executeWebhook(
                  [tk EXCEPT !.message = revocationMessage(channelOf(tk), tk.status)], o)

Lookups == {"streams", "channels", "users"}

\* ------------------------------------------------------------------ actions
Init ==
    /\ env \in Envs
    /\ upstream = DefaultUpstream
    /\ now = 0
    /\ req = NoReq
    /\ resp = NoResp
    /\ task = [t \in 1..MaxTasks |-> IdleTask]
    /\ accessToken = NoToken
    /\ expiresAt = 0
    /\ inflight = 0
    /\ tokenCalls = 0

\* One invocation of the fetch handler, with the synchronous prefix of the
\* task it hands to ctx.waitUntil.  slots bounds the tasks running at once;
\* a slot whose task has settled is taken over or released.
Fetch(r, slots) ==
    LET free == {t \in 1..slots : task[t].settled # "pending"}
        rs == fetch(r)
        kept == [t \in 1..MaxTasks |->
                    IF task[t].settled = "pending" THEN task[t] ELSE IdleTask]
    IN  /\ req = NoReq
        /\ tokenCalls < MaxCalls
        /\ free # {}
        /\ req' = r
        /\ resp' = rs
        /\ IF rs.scheduled = "none"
           THEN /\ task' = kept
                /\ UNCHANGED <<inflight, tokenCalls>>
           ELSE LET a == authorize(forward(r, rs.scheduled))
                IN  /\ task' = [kept EXCEPT ![Min(free)] = a.task]
                    /\ inflight' = a.inflight
                    /\ tokenCalls' = a.tokenCalls
        /\ UNCHANGED <<env, upstream, now, accessToken, expiresAt>>

\* The response reaches the webhook caller; the request and its response are
\* discarded (spec 3: a request lives for the duration of one inbound call).
Respond ==
    /\ req # NoReq
    /\ req' = NoReq
    /\ resp' = NoResp
    /\ UNCHANGED <<env, upstream, now, task, cacheVars>>

storeToken_onFailure(ok, lifetime) ==
    [accessToken |-> tokenCalls, expiresAt |-> now + lifetime]

\* Token Cache: what the cache holds after the token endpoint has answered.
\* Only a successful answer is stored.
storeToken(ok, lifetime) ==
    IF ok
    THEN [accessToken |-> tokenCalls, expiresAt |-> now + lifetime]
    ELSE [accessToken |-> accessToken, expiresAt |-> expiresAt]

\* The token endpoint answers the request in flight.  On success the token
\* and its expiry are stored and every waiter's callback starts; on failure
\* nothing is stored and every waiter gets the authorization error.
TokenResponse(ok, lifetime) ==
    /\ inflight > 0
    /\ inflight' = inflight - 1
    /\ accessToken' = storeToken(ok, lifetime).accessToken
    /\ expiresAt' = storeToken(ok, lifetime).expiresAt
    /\ IF ok
       THEN task' = [t \in 1..MaxTasks |->
                          IF task[t].pc = "token"
                          THEN startCallback(task[t], tokenCalls, "refresh")
                          ELSE task[t]]
       ELSE task' = [t \in 1..MaxTasks |->
                          IF task[t].pc = "token"
                          THEN catchError(task[t], "auth")
                          ELSE task[t]]
    /\ UNCHANGED <<env, upstream, now, req, resp, tokenCalls>>

\* One platform lookup answers.  A failed lookup rejects Promise.all at once;
\* the last answer resumes the callback.
LookupResponse(t, which, outcome) ==
    /\ task[t].pc = "lookups"
    /\ task[t][which] = "pending"
    /\ LET tk == [task[t] EXCEPT ![which] = outcome]
       IN  task' = [task EXCEPT ![t] =
                IF outcome = "fail"
                THEN catchError(tk, "lookup")
                ELSE IF \E w \in Lookups : tk[w] = "pending"
                THEN tk
                ELSE afterLookups(tk, env)]
    /\ UNCHANGED <<env, upstream, now, req, resp, cacheVars>>

\* The chat webhook answers the POST (discord.ts 151-153).
PostResponse(t, status) ==
    /\ task[t].pc = "post"
    /\ task' = [task EXCEPT ![t] =
            IF status # NoContent
            THEN catchError([task[t] EXCEPT !.res = status], "delivery")
            ELSE [task[t] EXCEPT !.pc = "done", !.settled = "resolved",
                                 !.res = status]]
    /\ UNCHANGED <<env, upstream, now, req, resp, cacheVars>>

Tick ==
    /\ now < MaxTime
    /\ now' = now + 1
    /\ UNCHANGED <<env, upstream, req, resp, task, cacheVars>>

\* The downstream steps, with the answers the collaborators may give.
Downstream(outcomes, statuses) ==
    \/ \E ok \in BOOLEAN, lifetime \in Lifetimes : TokenResponse(ok, lifetime)
    \/ \E t \in 1..MaxTasks, which \in Lookups, outcome \in outcomes :
           LookupResponse(t, which, outcome)
    \/ \E t \in 1..MaxTasks, status \in statuses : PostResponse(t, status)
    \/ Respond
    \/ Tick

\* One invocation at a time, over every request.
Next ==
    \/ \E r \in Requests : Fetch(r, 1)
    \/ Downstream({"one", "empty", "fail"}, {NoContent, 404})

Spec == Init /\ [][Next]_vars

\* Up to MaxTasks invocations at once, sharing the token cache.
NextConc ==
    \/ \E r \in ConcRequests : Fetch(r, MaxTasks)
    \/ Downstream({"one"}, {NoContent})

ConcEnvs == {[id |-> "id", token |-> "token", url |-> NoUrl, ageWarning |-> ""]}

InitConc ==
    /\ env \in ConcEnvs
    /\ upstream = DefaultUpstream
    /\ now = 0
    /\ req = NoReq
    /\ resp = NoResp
    /\ task = [t \in 1..MaxTasks |-> IdleTask]
    /\ accessToken = NoToken
    /\ expiresAt = 0
    /\ inflight = 0
    /\ tokenCalls = 0

SpecConc == InitConc /\ [][NextConc]_vars

\* Well-formed notifications and revocations of every subscription status
\* and age.
DataRequests ==
    [idPresent : {TRUE}, tsPresent : {TRUE}, timestamp : Timestamps,
     signature : {"match"},
     msgType : {Notification, Revocation},
     body : {[json |-> TRUE, subType |-> StreamOnline, challenge |-> "absent",
              status |-> st] : st \in Statuses}]

\* One invocation at a time, over the resources the platform may hold.
InitData ==
    /\ env \in ConcEnvs
    /\ upstream \in Upstreams
    /\ now = 0
    /\ req = NoReq
    /\ resp = NoResp
    /\ task = [t \in 1..MaxTasks |-> IdleTask]
    /\ accessToken = NoToken
    /\ expiresAt = 0
    /\ inflight = 0
    /\ tokenCalls = 0

NextData ==
    \/ \E r \in DataRequests : Fetch(r, 1)
    \/ Downstream({"one", "empty"}, {NoContent})

SpecData == InitData /\ [][NextData]_vars

\* Two notifications at once whose lookups answer in any order, each with
\* a resource or an empty collection.
NextPair ==
    \/ \E r \in {c \in ConcRequests : c.msgType = Notification} : Fetch(r, 2)
    \/ Downstream({"one", "empty"}, {NoContent})

SpecPair == InitConc /\ [][NextPair]_vars

\* One invocation at a time under every configuration of the webhook
\* target, the chat webhook answering 204, another success status or an
\* error status.
InitHook ==
    /\ env \in HookEnvs
    /\ upstream = DefaultUpstream
    /\ now = 0
    /\ req = NoReq
    /\ resp = NoResp
    /\ task = [t \in 1..MaxTasks |-> IdleTask]
    /\ accessToken = NoToken
    /\ expiresAt = 0
    /\ inflight = 0
    /\ tokenCalls = 0

NextHook ==
    \/ \E r \in ConcRequests : Fetch(r, 1)
    \/ Downstream({"one"}, {NoContent, 200, 404})

SpecHook == InitHook /\ [][NextHook]_vars

\* ------------------------------------------------------------------ typing
TypeOK ==
    /\ env \in Envs \cup HookEnvs
    /\ platform \in Platforms
    /\ now \in 0..MaxTime
    /\ req \in Requests \cup DataRequests \cup {NoReq}
    /\ resp.status \in {0, 200, NoContent, 400, 401, 403}
    /\ \A t \in 1..MaxTasks :
          /\ task[t].kind \in {"idle", Notification, Revocation}
          /\ task[t].pc \in {"idle", "token", "lookups", "post", "done"}
          /\ task[t].posts \in 0..1
    /\ accessToken \in 0..MaxCalls
    /\ inflight \in 0..1
    /\ tokenCalls \in 0..MaxCalls

\* ------------------------------------------------------------ claim helpers
Known == {Notification, WebhookCallbackVerification, Revocation}

\* This step is an invocation of fetch for request r'.
Fetched == req = NoReq /\ req' # NoReq

\* Nothing downstream is started or called in this step.
Quiet ==
    /\ inflight' = inflight
    /\ tokenCalls' = tokenCalls
    /\ \A t \in 1..MaxTasks : task'[t].settled # "pending" \/ task'[t] = task[t]

Rejected(rs) ==
    /\ rs.status \in {400, 401, 403}
    /\ rs.body = Empty
    /\ rs.scheduled = "none"

\* ---------------------------------------------------------------------- C1
\* C1: a request whose signature verification fails is answered 401 with an
\* empty body whatever its body and message-type header are; the body is
\* neither parsed nor classified, nothing is scheduled and no outbound call
\* is made.
C1_Answer ==
    (req # NoReq /\ ~verifyRequest(req))
        => /\ resp.status = 401
           /\ resp.body = Empty
           /\ ~resp.parsed
           /\ ~resp.classified
           /\ resp.scheduled = "none"
           /\ ~resp.escaped

C1_InvalidSignature401 ==
    /\ []C1_Answer
    /\ [][(Fetched /\ ~verifyRequest(req')) => Quiet]_vars

C1_Witness ==
    /\ req # NoReq
    /\ req.signature = "mismatch"
    /\ req.idPresent /\ req.tsPresent
    /\ ~req.body.json
    /\ req.msgType = "unknown"
    /\ resp.status = 401

\* ---------------------------------------------------------------------- C2
ChallengeRequest ==
    /\ req # NoReq
    /\ verifyRequest(req)
    /\ req.msgType = WebhookCallbackVerification
    /\ req.body.json
    /\ req.body.challenge \in Challenges

C3_Unsupported403 ==
    (req # NoReq /\ verifyRequest(req) /\ req.body.json
        /\ req.body.subType # StreamOnline)
        => /\ resp.status = 403
           /\ resp.body = Empty
           /\ ~resp.classified
           /\ resp.scheduled = "none"

C3_Witness ==
    /\ req # NoReq
    /\ verifyRequest(req)
    /\ req.body.json
    /\ req.body.subType = "channel.follow"
    /\ req.msgType = Revocation
    /\ resp.status = 403

\* ---------------------------------------------------------------------- C4
\* C4: a verified request with a supported body whose message-type header is
\* missing or unknown falls through to 400 with an empty body, and schedules
\* nothing.
C4_UnknownKind400 ==
    /\ []((req # NoReq /\ verifyRequest(req) /\ req.body.json
            /\ req.body.subType = StreamOnline /\ req.msgType \notin Known)
            => /\ resp.status = 400
               /\ resp.body = Empty
               /\ resp.scheduled = "none")
    /\ [][(Fetched /\ req'.msgType \notin Known) => Quiet]_vars

C4_Witness ==
    /\ req # NoReq
    /\ verifyRequest(req)
    /\ req.body.json
    /\ req.body.subType = StreamOnline
    /\ req.msgType = "missing"
    /\ resp.status = 400
    /\ resp.classified

\* ---------------------------------------------------------------------- C5
ParsedRequest ==
    req # NoReq /\ verifyRequest(req) /\ req.body.json

\* C5 as stated: an unknown or missing message-type header, like an
\* unsupported body, is answered 403.
C5_Original ==
    (ParsedRequest /\ (req.body.subType # StreamOnline \/ req.msgType \notin Known))
        => resp.status = 403

\* C5 amended: the message-type header is matched against the three known
\* kinds and anything else is rejected with the generic 400 (not 403); an
\* unsupported body is rejected with 403; either check failing alone rejects
\* the request.
C5_Amended ==
    ParsedRequest =>
        /\ (req.body.subType # StreamOnline => resp.status = 403)
        /\ (req.body.subType = StreamOnline /\ req.msgType \notin Known
                => resp.status = 400)
        /\ (req.body.subType # StreamOnline \/ req.msgType \notin Known
                => Rejected(resp))

C5_Witness ==
    /\ ParsedRequest
    /\ req.body.subType = StreamOnline
    /\ req.msgType = "unknown"
    /\ resp.status = 400
    /\ resp.scheduled = "none"

\* ---------------------------------------------------------------------- C6
\* C6: a verified request whose body is not parseable JSON is answered 400
\* with an empty body, and no exception escapes the handler.
C6_Malformed400 ==
    /\ ~resp.escaped
    /\ (req # NoReq /\ verifyRequest(req) /\ ~req.body.json)
          => /\ resp.status = 400
             /\ resp.body = Empty
             /\ resp.scheduled = "none"

C6_Witness ==
    /\ req # NoReq
    /\ verifyRequest(req)
    /\ ~req.body.json
    /\ resp.status = 400
    /\ ~resp.parsed

\* ---------------------------------------------------------------------- C7
Accepted(r) ==
    /\ r # NoReq
    /\ verifyRequest(r)
    /\ r.body.json
    /\ r.body.subType = StreamOnline
    /\ r.msgType \in {Notification, Revocation}

\* C7: a valid notification or revocation is answered 204 while its
\* downstream task is still pending, and the answer stays 204 with an empty
\* body through every downstream step and outcome.
C7_Status204 ==
    /\ [](Accepted(req) =>
            /\ resp.status = NoContent
            /\ resp.body = Empty
            /\ resp.scheduled = req.msgType)
    /\ []((req # NoReq /\ task[1].settled = "pending") =>
            (Accepted(req) /\ resp.status = NoContent))
    /\ [][(req # NoReq /\ req' = req) => resp' = resp]_vars

C7_Witness ==
    /\ Accepted(req)
    /\ req.msgType = Notification
    /\ task[1].kind = Notification
    /\ task[1].pc = "token"
    /\ inflight = 1
    /\ resp.status = NoContent

\* ---------------------------------------------------------------------- C8
\* C8: every failure of the downstream task is caught inside it: the task
\* handed to waitUntil never rejects, a settled task takes no further step,
\* no token request is issued except on entry, at most one POST is issued per
\* task, and none after a failed authorization, lookup or target resolution.
C8_TaskOK(t) ==
    /\ task[t].settled # "rejected"
    /\ task[t].posts <= 1
    /\ (task[t].pc = "done" <=> task[t].settled = "resolved")
    /\ (task[t].err # "none" => task[t].pc = "done")
    /\ (task[t].err \in {"auth", "lookup", "notfound", "target"} => task[t].posts = 0)
    /\ (task[t].err = "delivery" => task[t].posts = 1)

C8_FailuresSwallowed ==
    /\ [](\A t \in 1..MaxTasks : C8_TaskOK(t))
    /\ [][\A t \in 1..MaxTasks :
            task[t].pc = "done" =>
                \/ task'[t] = task[t]
                \/ Fetched /\ task'[t].posts = 0 /\ task'[t].err = "none"]_vars
    /\ [][~Fetched => tokenCalls' = tokenCalls]_vars

C8_Witness ==
    /\ task[1].kind = Notification
    /\ task[1].err = "delivery"
    /\ task[1].posts = 1
    /\ task[1].settled = "resolved"

\* ---------------------------------------------------------------------- C9
Waiting == {t \in 1..MaxTasks : task[t].pc = "token"}

\* C9: with no fresh token cached, concurrent callers of withToken cause one
\* token request: at most one refresh is in flight, a caller that arrives
\* during it issues none and waits, and every waiter resumes with the token
\* of that refresh.
C9_SingleFlight ==
    /\ [](inflight <= 1 /\ (Waiting # {} => inflight = 1))
    /\ [][inflight > 0 => tokenCalls' = tokenCalls]_vars
    /\ [][inflight' < inflight => \A t \in 1..MaxTasks : task'[t].pc # "token"]_vars
    /\ [][\A t \in 1..MaxTasks :
            (task[t].pc = "token" /\ task'[t].pc = "lookups") =>
                /\ task'[t].token = tokenCalls
                /\ task'[t].token = accessToken'
                /\ task'[t].via = "refresh"]_vars

C9_Witness ==
    /\ Cardinality(Waiting) >= 2
    /\ inflight = 1
    /\ tokenCalls = 1

\* --------------------------------------------------------------------- C10
Fresh == accessToken # NoToken /\ now < expiresAt - ExpiryMargin

\* C10: while the cached token has not passed its expiry less the margin,
\* every withToken call hands that token to its callback and no token
\* request is issued or in flight.
C10_FreshTokenReused ==
    /\ [](Fresh => inflight = 0)
    /\ [][Fresh => (tokenCalls' = tokenCalls /\ inflight' = 0)]_vars
    /\ [][(Fresh /\ Fetched /\ resp'.scheduled # "none") =>
            \E t \in 1..MaxTasks :
                /\ task[t].settled # "pending"
                /\ task'[t].pc = "lookups"
                /\ task'[t].via = "cache"
                /\ task'[t].token = accessToken]_vars

C10_Witness ==
    /\ Fresh
    /\ tokenCalls = 1
    /\ \A t \in 1..2 : task[t].via = "cache" /\ task[t].token = accessToken

\* --------------------------------------------------------------------- C11
\* The token endpoint answers in this step and a waiter is left with the
\* authorization error.
RefreshFailed ==
    /\ inflight' < inflight
    /\ \E t \in 1..MaxTasks : task[t].pc = "token" /\ task'[t].err = "auth"

\* C11: when a token request fails the cache is left as it was (no token is
\* stored), every waiter of that refresh settles with the authorization
\* error without its callback having issued a lookup or a POST, and the next
\* withToken call issues a token request of its own.
C11_FailedRefresh ==
    /\ [][RefreshFailed =>
            /\ accessToken' = accessToken
            /\ expiresAt' = expiresAt
            /\ \A t \in 1..MaxTasks :
                  task[t].pc = "token" =>
                      /\ task'[t].err = "auth"
                      /\ task'[t].pc = "done"
                      /\ task'[t].token = NoToken
                      /\ \A w \in Lookups : task'[t][w] = "unused"
                      /\ task'[t].posts = 0]_vars
    /\ [](accessToken = NoToken => expiresAt = 0)
    /\ [][(Fetched /\ resp'.scheduled # "none" /\ inflight = 0
            /\ accessToken = NoToken /\ tokenCalls >= 1) =>
            /\ tokenCalls' = tokenCalls + 1
            /\ inflight' = 1
            /\ \E t \in 1..MaxTasks :
                  task[t].settled # "pending" /\ task'[t].pc = "token"]_vars

C11_Witness ==
    /\ accessToken = NoToken
    /\ tokenCalls = 1
    /\ inflight = 0
    /\ \A t \in 1..2 : task[t].err = "auth" /\ task[t].settled = "resolved"

\* --------------------------------------------------------------------- C12
\* Task t is a notification whose aggregation has returned a merged view.
Merged(t) ==
    /\ task[t].kind = Notification
    /\ task[t].pc \in {"post", "done"}
    /\ task[t].err \notin {"auth", "lookup", "notfound"}

\* C12: when the streams collection is empty and the channel resource is
\* present, the merged view has startedAt and thumbnailUrl absent and its
\* user id, login, name, game id, game name, title, delay and language equal
\* to the channel resource's fields; with the user resource present too the
\* view is produced.
C12_ChannelFallback ==
    \A t \in 1..MaxTasks :
        (task[t].kind = Notification /\ task[t].pc \in {"post", "done"}
         /\ task[t].streams = "empty" /\ task[t].channels = "one") =>
            /\ task[t].users = "one" => Merged(t)
            /\ Merged(t) =>
                  /\ task[t].info.startedAt = NoInstant
                  /\ task[t].info.thumbnailUrl = Undefined
                  /\ task[t].info.userId = platform.channel.broadcaster_id
                  /\ task[t].info.userLogin = platform.channel.broadcaster_login
                  /\ task[t].info.userName = platform.channel.broadcaster_name
                  /\ task[t].info.gameId = platform.channel.game_id
                  /\ task[t].info.gameName = platform.channel.game_name
                  /\ task[t].info.title = platform.channel.title
                  /\ task[t].info.delay = platform.channel.delay
                  /\ task[t].info.language = platform.channel.broadcaster_language

C12_Witness ==
    /\ Merged(1)
    /\ task[1].streams = "empty"
    /\ task[1].posts = 1
    /\ task[1].info.title = "c.title"
    /\ task[1].info.language = "c.broadcaster_language"

\* --------------------------------------------------------------------- C13
\* The three lookups of notification t have all answered without failing.
Answered(t) ==
    /\ task[t].kind = Notification
    /\ task[t].pc \in {"post", "done"}
    /\ \A w \in Lookups : task[t][w] \in {"one", "empty"}

\* Two aggregations given the same three responses end alike, in whatever
\* order the responses of each arrived.
Deterministic ==
    \A t, u \in 1..MaxTasks :
        (Answered(t) /\ Answered(u)
         /\ \A w \in Lookups : task[t][w] = task[u][w]) =>
            /\ task[t].info = task[u].info
            /\ Merged(t) <=> Merged(u)

\* C13 as stated: the merge is deterministic, and a record is produced for
\* every combination the spec does not declare an error, which is every
\* combination with the channel resource present.
C13_Original ==
    /\ Deterministic
    /\ \A t \in 1..MaxTasks :
          (Answered(t) /\ task[t].channels = "one") =>
              Merged(t) /\ task[t].info # NoView

\* C13 amended: the merge is deterministic, and a record is produced for
\* every combination with the channel and the user resource present,
\* whether or not a stream resource is; with either of the two absent no
\* record is produced.
C13_Amended ==
    /\ Deterministic
    /\ \A t \in 1..MaxTasks :
          Answered(t) =>
              IF task[t].channels = "one" /\ task[t].users = "one"
              THEN Merged(t) /\ task[t].info # NoView
              ELSE ~Merged(t) /\ task[t].info = NoView /\ task[t].posts = 0

C13_Witness ==
    /\ Answered(1) /\ Answered(2)
    /\ task[1].streams = "empty" /\ task[2].streams = "empty"
    /\ Merged(1) /\ Merged(2)
    /\ task[1].info = task[2].info
    /\ task[1].info.title = "c.title"

\* --------------------------------------------------------------------- C14
\* Notification t has the stream and channel answers that suffice for a
\* view, and a user lookup that failed or returned an empty collection.
UserLookupLost(t) ==
    /\ task[t].kind = Notification
    /\ task[t].users \in {"empty", "fail"}
    /\ task[t].channels = "one"
    /\ task[t].streams \in {"one", "empty"}

\* C14 as stated: a failed or empty user lookup does not fail the
\* aggregation; the view is produced without the avatar and the message is
\* sent.
C14_Original ==
    \A t \in 1..MaxTasks :
        (UserLookupLost(t) /\ task[t].pc = "done"
         /\ resolveWebhookOptions(env) # NoWebhook) =>
            /\ task[t].info # NoView
            /\ task[t].info.userAvatarUrl = Undefined
            /\ task[t].posts = 1

\* C14 amended: the user lookup is required.  Its failure fails the
\* aggregation at once with the lookup error, an empty user collection fails
\* it once all three have answered; no view is produced and no message is
\* sent, even when the stream and channel data are there.
C14_Amended ==
    \A t \in 1..MaxTasks :
        (task[t].kind = Notification /\ task[t].users \in {"empty", "fail"}) =>
            /\ task[t].info = NoView
            /\ task[t].message = NoMessage
            /\ task[t].posts = 0
            /\ task[t].users = "fail" => task[t].pc = "done" /\ task[t].err = "lookup"
            /\ task[t].pc = "done" => task[t].err \in {"lookup", "notfound"}
            /\ (UserLookupLost(t) /\ task[t].users = "empty") =>
                  task[t].pc = "done" /\ task[t].err = "notfound"

C14_Witness ==
    /\ UserLookupLost(1)
    /\ task[1].users = "empty"
    /\ task[1].streams = "one"
    /\ task[1].err = "notfound"
    /\ resolveWebhookOptions(env) # NoWebhook

\* --------------------------------------------------------------------- C15
\* The staleness threshold in force: the configured override, else 300000 ms.
Threshold == IF env.ageWarning = "600000" THEN 600000 ELSE 300000

Stale(r) == r.tsPresent /\ now - r.timestamp > Threshold

\* C15: staleness is advisory.  The response to a request and the response
\* to the request that differs from it only in its timestamp have the same
\* status, body and scheduled work, whichever of the two is older than the
\* threshold (300000 ms, or the configured override); a stale request that
\* passes verification is logged as such and is not rejected for it.
C15_StalenessAdvisory ==
    [][Fetched =>
        /\ \A ts \in Timestamps :
              req'.tsPresent =>
                  LET twin == fetch([req' EXCEPT !.timestamp = ts])
                  IN  /\ twin.status = resp'.status
                      /\ twin.body = resp'.body
                      /\ twin.scheduled = resp'.scheduled
        /\ resp'.warned <=> (verifyRequest(req') /\ Stale(req'))
        /\ \A t \in 1..MaxTasks :
              (task'[t] # task[t] /\ task'[t].kind = Notification) =>
                  task'[t].timestamp = req'.timestamp]_vars

C15_Witness ==
    /\ Stale(req)
    /\ resp.warned
    /\ resp.status = NoContent
    /\ resp.scheduled = Notification
    /\ task[1].timestamp = req.timestamp

\* --------------------------------------------------------------------- C16
\* str with every underscore replaced by a space.
underscoresReplaced(str) ==
    [i \in 1..Len(str) |-> IF str[i] = "_" THEN " " ELSE str[i]]

\* C16: a revocation task obtains a token, performs the channel lookup only,
\* and sends at most one message, which carries the channel's display name
\* and the subscription status with its underscores replaced by spaces; with
\* the channel collection empty it sends none.
C16_RevocationMessage ==
    \A t \in 1..MaxTasks :
        task[t].kind = Revocation =>
            /\ task[t].streams = "unused" /\ task[t].users = "unused"
            /\ task[t].channels # "unused" => task[t].token # NoToken
            /\ task[t].posts <= 1
            /\ task[t].channels = "empty" => task[t].posts = 0
            /\ task[t].posts = 1 =>
                  /\ task[t].channels = "one"
                  /\ task[t].message.name = platform.channel.broadcaster_name
                  /\ task[t].message.status = underscoresReplaced(task[t].status)

\* --------------------------------------------------------------------- C17
\* C17: a notification's three lookups are issued together, with the token
\* the task holds, before any of them has answered; the aggregation returns
\* only after all three have answered, fails on the first failed answer
\* while others may still be pending, and no POST is issued before the token
\* is held and all three lookups have answered.
C17_ParallelLookups ==
    /\ [](\A t \in 1..MaxTasks :
            task[t].kind = Notification =>
                /\ task[t].token = NoToken =>
                      \A w \in Lookups : task[t][w] = "unused"
                /\ task[t].pc = "lookups" =>
                      /\ task[t].token # NoToken
                      /\ \E w \in Lookups : task[t][w] = "pending"
                      /\ \A w \in Lookups : task[t][w] \in {"pending", "one", "empty"}
                /\ (task[t].pc = "post" \/ task[t].posts > 0 \/ task[t].info # NoView) =>
                      /\ task[t].token # NoToken
                      /\ \A w \in Lookups : task[t][w] \in {"one", "empty"}
                /\ (\E w \in Lookups : task[t][w] = "fail") =>
                      task[t].pc = "done" /\ task[t].err = "lookup" /\ task[t].posts = 0)
    /\ [][\A t \in 1..MaxTasks :
            (task'[t].kind = Notification /\ task'[t].pc = "lookups"
             /\ (task[t].pc # "lookups" \/ task[t].settled # "pending")) =>
                /\ task'[t].token # NoToken
                /\ \A w \in Lookups : task'[t][w] = "pending"]_vars
    /\ [][\A t \in 1..MaxTasks :
            (task[t].kind = Notification /\ task[t].pc = "lookups"
             /\ task'[t].pc = "lookups") =>
                task'[t].token = task[t].token]_vars

C17_Witness ==
    /\ task[1].kind = Notification
    /\ task[1].token # NoToken
    /\ task[1].users = "fail"
    /\ task[1].streams = "pending"
    /\ task[1].channels = "one"
    /\ task[1].err = "lookup"

\* --------------------------------------------------------------------- C18
\* The stream's value a, or the channel's value b where the stream has none.
StreamElse(a, b) == IF a # Undefined THEN a ELSE b

\* C18: when the streams collection holds a stream resource, the merged
\* view's user id, login, name, game id, game name, title and language are
\* the stream's values, each replaced by the channel's value only where the
\* stream's is missing; startedAt and thumbnailUrl are the stream's, delay
\* is the channel's and the avatar is the user's.
C18_StreamPrecedence ==
    \A t \in 1..MaxTasks :
        (Merged(t) /\ task[t].streams = "one") =>
            LET st == platform.stream
                ch == platform.channel
                v == task[t].info
            IN  /\ v.userId = StreamElse(st.user_id, ch.broadcaster_id)
                /\ v.userLogin = StreamElse(st.user_login, ch.broadcaster_login)
                /\ v.userName = StreamElse(st.user_name, ch.broadcaster_name)
                /\ v.gameId = StreamElse(st.game_id, ch.game_id)
                /\ v.gameName = StreamElse(st.game_name, ch.game_name)
                /\ v.title = StreamElse(st.title, ch.title)
                /\ v.language = StreamElse(st.language, ch.broadcaster_language)
                /\ v.startedAt = st.started_at
                /\ v.thumbnailUrl = st.thumbnail_url
                /\ v.delay = ch.delay
                /\ v.userAvatarUrl = platform.user.profile_image_url

C18_Witness ==
    /\ Merged(1)
    /\ task[1].streams = "one"
    /\ platform.stream.user_name = Undefined
    /\ task[1].info.userName = "c.broadcaster_name"
    /\ task[1].info.title = "s.title"
    /\ task[1].info.userAvatarUrl = "u.profile_image_url"
    /\ task[1].posts = 1

C20_RelativeTime ==
    /\ [](\A t \in 1..MaxTasks :
            (Merged(t) /\ task[t].message # NoMessage) =>
                IF task[t].info.startedAt # NoInstant
                THEN /\ task[t].message.wording = "went live"
                     /\ task[t].message.instant = task[t].info.startedAt
                ELSE /\ task[t].message.wording = "goes live"
                     /\ task[t].message.instant =
                            task[t].timestamp + task[t].info.delay)
    /\ [](\A r \in Requests \cup DataRequests :
            resolveTimestamp(r).timestamp = IF r.tsPresent THEN r.timestamp ELSE now)
    /\ [][\A t \in 1..MaxTasks :
            (Fetched /\ resp'.scheduled = Notification /\ task'[t] # task[t]
             /\ task'[t].settled = "pending") =>
                task'[t].timestamp = req'.timestamp]_vars

C20_Witness ==
    /\ Merged(1)
    /\ task[1].streams = "one"
    /\ task[1].info.startedAt = NoInstant
    /\ task[1].timestamp < 0
    /\ task[1].message.wording = "goes live"
    /\ task[1].message.instant = task[1].timestamp + platform.channel.delay
    /\ task[1].posts = 1

\* --------------------------------------------------------------------- C21
\* executeWebhook has been called by task t: its message is built.
Executed(t) == task[t].message # NoMessage

\* The configured URL is one the webhook pattern matches: an id segment of
\* 17 to 19 digits and at least 68 word characters after it, the first 68
\* of which are the token.
UrlMatches ==
    /\ env.url.set
    /\ env.url.idDigits >= 17 /\ env.url.idDigits <= 19
    /\ env.url.tokenChars >= 68

\* C21: executeWebhook takes its target from the explicit id and token when
\* both are set, otherwise from a URL the webhook pattern matches; with
\* neither it fails without a POST, and otherwise it issues exactly one POST
\* and fails exactly when the response status is not 204.
C21_WebhookTarget ==
    \A t \in 1..MaxTasks :
        /\ ~Executed(t) =>
              task[t].posts = 0 /\ task[t].target = NoWebhook /\ task[t].res = 0
        /\ Executed(t) =>
              /\ IF env.id # "" /\ env.token # ""
                 THEN /\ task[t].target = [id |-> env.id, token |-> env.token]
                      /\ task[t].posts = 1
                 ELSE IF UrlMatches
                 THEN /\ task[t].target = [id |-> "urlid", token |-> "urltoken"]
                      /\ task[t].posts = 1
                 ELSE /\ task[t].target = NoWebhook
                      /\ task[t].posts = 0
                      /\ task[t].pc = "done"
                      /\ task[t].err = "target"
                      /\ task[t].res = 0
              /\ task[t].posts = 1 =>
                    \/ /\ task[t].pc = "post"
                       /\ task[t].res = 0
                       /\ task[t].err = "none"
                    \/ /\ task[t].pc = "done"
                       /\ task[t].res = NoContent
                       /\ task[t].err = "none"
                    \/ /\ task[t].pc = "done"
                       /\ task[t].res \notin {0, NoContent}
                       /\ task[t].err = "delivery"

C21_Witness ==
    /\ env.id = "id" /\ env.token = ""
    /\ env.url.tokenChars = 68
    /\ Executed(1)
    /\ task[1].target = [id |-> "urlid", token |-> "urltoken"]
    /\ task[1].posts = 1
    /\ task[1].res = 200
    /\ task[1].err = "delivery"

\* --------------------------------------------------------------------- C22
\* C22: every invocation returns one response and throws nothing to its
\* caller; the status is 200, 204, 400, 401 or 403; the body is empty unless
\* the status is 200, and then it is the body's challenge and nothing else.
\* The response of a request is not replaced while the request lasts.
C22_OneResponse ==
    /\ [][Fetched =>
            /\ resp'.status \in {200, 204, 400, 401, 403}
            /\ ~resp'.escaped
            /\ IF resp'.status = 200
               THEN resp'.body = IF req'.body.challenge = "absent"
                                 THEN Empty ELSE req'.body.challenge
               ELSE resp'.body = Empty]_vars
    /\ [](req # NoReq <=> resp # NoResp)
    /\ [][req # NoReq =>
            \/ req' = req /\ resp' = resp
            \/ req' = NoReq /\ resp' = NoResp]_vars

C22_Witness ==
    /\ req # NoReq
    /\ verifyRequest(req)
    /\ ~req.body.json
    /\ req.msgType = WebhookCallbackVerification
    /\ resp.status = 400
    /\ resp.body = Empty
    /\ ~resp.escaped

\* --------------------------------------------------------------------- C23
\* The tasks handed to waitUntil in this step.
Started == {t \in 1..MaxTasks : task'[t].settled = "pending" /\ task'[t] # task[t]
                                  /\ task[t].settled # "pending"}

\* C23: an invocation answered 204 hands exactly one task to waitUntil, of
\* the kind of its request; an invocation answered 200, 400, 401 or 403
\* hands over none and starts no token request.  Tasks start in no other
\* way, and token requests, lookups and POSTs are made by such tasks only.
C23_ScheduledOnce ==
    /\ [][Fetched =>
            IF resp'.status = NoContent
            THEN /\ Cardinality(Started) = 1
                 /\ \A t \in Started :
                       /\ task'[t].kind = req'.msgType
                       /\ task'[t].kind \in {Notification, Revocation}
                       /\ task'[t].posts = 0
            ELSE /\ resp'.status \in {200, 400, 401, 403}
                 /\ Started = {}
                 /\ inflight' = inflight
                 /\ tokenCalls' = tokenCalls
                 /\ \A t \in 1..MaxTasks :
                       task'[t] = task[t] \/ task'[t] = IdleTask]_vars
    /\ [][~Fetched => (Started = {} /\ tokenCalls' = tokenCalls)]_vars
    /\ [](\A t \in 1..MaxTasks :
            task[t].kind = "idle" =>
                /\ task[t].pc = "idle"
                /\ task[t].posts = 0
                /\ \A w \in Lookups : task[t][w] = "unused")
    /\ [][\A t \in 1..MaxTasks :
            (task'[t] # task[t] /\ task'[t] # IdleTask) =>
                task'[t].kind \in {Notification, Revocation}]_vars

C23_Witness ==
    /\ req # NoReq
    /\ resp.status = 403
    /\ tokenCalls = 1
    /\ inflight = 0
    /\ task[1] = IdleTask

====
